---- MODULE Spec2Model ----
(***************************************************************************)
(* Comment threading of the YouTube scraper.                               *)
(*                                                                         *)
(*  - utils.nest_comments(comment_list, root_id): threads a flat list of   *)
(*    Comment objects in place and returns the top-level list.             *)
(*  - download_video_info (download_video.py, copied in main.py): threads  *)
(*    the raw comment dictionaries through all_comments and                *)
(*    parent_to_children into formatted_data["comments"].                  *)
(*                                                                         *)
(* A Comment object is identified by its position in comment_list (object  *)
(* identity); the position also stands for its payload fields.  Identifier *)
(* values are numbers: Root stands for the string "root", 1..NumIds for    *)
(* comment ids, Missing for an id that no comment of the batch carries.    *)
(***************************************************************************)
EXTENDS Integers, Sequences, FiniteSets, TLC

\* ---- bounds ------------------------------------------------------------
MaxLen == 3
NumIds == 3

\* ---- identifier values -------------------------------------------------
Root == 0
Ids == 1..NumIds
Missing == NumIds + 1
ParentVals == {Root} \cup Ids \cup {Missing}
RootIds == {Root} \cup Ids

RawComment == [comment_id : Ids, parent : ParentVals]

\* nest_comments only compares ids for equality (dict keys, ==), so a batch is
\* taken up to a renaming of its ids: the records' ids are numbered in the
\* order of their first occurrence.  Parents and the sentinel range over every
\* value.
FirstUseOrder(list) ==
  \A k \in DOMAIN list :
    \/ list[k].comment_id = 1
    \/ \E j \in 1..(k - 1) : list[j].comment_id >= list[k].comment_id - 1

Batches == {b \in UNION {[1..n -> RawComment] : n \in 0..MaxLen} : FirstUseOrder(b)}

VARIABLES
  comment_list,     \* nest_comments: the list passed in (fields comment_id, parent)
  root_id,          \* nest_comments: the sentinel argument
  replies,          \* comments_replies_list of every Comment object (by position)
  pc,               \* position in nest_comments: "build", "loop", "done"
  call,             \* the run of nest_comments: 1 first, 2 again on the same objects,
                    \* 3 on an equal batch of fresh objects
  idx,              \* position of the for loop (next record to place)
  id_to_comment,    \* the lookup: comment_id -> object
  nested,           \* the list being built
  returned,         \* the list returned by the call that completed last
  first,            \* what the first call left: [nested, replies]
  video_comments,   \* download_video_info: video_info["comments"] (fields id, parent)
  vpc,              \* position in download_video_info: "idle", "first", "second", "third", "done"
  all_comments,     \* the dict of comment_data by id: [keys (insertion order), src]
  parent_to_children, \* parent id -> list of the children's keys
  formatted_comments, \* formatted_data["comments"]
  youtube,            \* main.py: what the construction of the Youtube object gave
  total_comments_scraped  \* formatted_data["total_comments_scraped"]

nestVars == <<comment_list, root_id, replies, pc, call, idx, id_to_comment, nested,
              returned, first>>
videoVars == <<video_comments, vpc, all_comments, parent_to_children,
               formatted_comments, youtube, total_comments_scraped>>

VARIABLES
  mpc,        \* main(): the item under its try block (1..3), 4 at the end of main()
  mstage,     \* the statement of the try block: "fetch", "open", "write"
  result,     \* what the call of the searcher returned: "object" or "none"
  attempted,  \* the items whose try block was entered, in order
  reported,   \* the errors printed by the except clauses, in order
  opened,     \* the output files opened for writing (created or truncated)
  written     \* the output files that were written completely

mainVars == <<mpc, mstage, result, attempted, reported, opened, written>>

vars == <<nestVars, videoVars, mainVars>>

MainIdle ==
  /\ mpc = 0
  /\ mstage = "idle"
  /\ result = "none"
  /\ attempted = <<>>
  /\ reported = <<>>
  /\ opened = {}
  /\ written = {}

\* ---- helpers -----------------------------------------------------------
SetMax(S) == CHOOSE x \in S : \A y \in S : y <= x
SetMin(S) == CHOOSE x \in S : \A y \in S : x <= y

IdsOf(list) == {list[k].comment_id : k \in DOMAIN list}
Occurrences(list, cid) == {k \in DOMAIN list : list[k].comment_id = cid}

\* {c.comment_id: c for c in comment_list}: a later record overwrites an
\* earlier one with the same id.
BuildLookupFirstWins(list) ==
  [cid \in IdsOf(list) |-> SetMin(Occurrences(list, cid))]

\* only the records with the sentinel as parent are entered in the lookup
BuildLookupTopOnly(list) ==
  [cid \in {list[k].comment_id : k \in {j \in DOMAIN list : list[j].parent = root_id}} |->
     SetMax({k \in Occurrences(list, cid) : list[k].parent = root_id})]

BuildLookup(list) ==
  [cid \in IdsOf(list) |-> SetMax(Occurrences(list, cid))]

NoLookup == [cid \in {} |-> 0]
NoComments == [keys |-> <<>>, src |-> NoLookup]
NoChildren == [par \in {} |-> <<>>]
NoObject == [made |-> FALSE, comments |-> <<>>]
EmptyReplies(list) == [k \in DOMAIN list |-> <<>>]

\* ---- nest_comments -------------------------------------------------------
Init ==
  /\ comment_list \in Batches
  /\ root_id \in RootIds
  /\ replies = EmptyReplies(comment_list)
  /\ pc = "build"
  /\ call = 1
  /\ idx = 0
  /\ id_to_comment = NoLookup
  /\ nested = <<>>
  /\ returned = <<>>
  /\ first = [nested |-> <<>>, replies |-> EmptyReplies(comment_list)]
  /\ video_comments = <<>>
  /\ vpc = "idle"
  /\ all_comments = NoComments
  /\ parent_to_children = NoChildren
  /\ formatted_comments = <<>>
  /\ youtube = NoObject
  /\ total_comments_scraped = 0
  /\ MainIdle

\* the result list is not created anew: it still holds what the previous call
\* returned
BuildStepStaleResult ==
  /\ pc = "build"
  /\ id_to_comment' = BuildLookup(comment_list)
  /\ nested' = IF call = 1 THEN <<>> ELSE returned
  /\ idx' = 1
  /\ pc' = "loop"
  /\ UNCHANGED <<comment_list, root_id, replies, call, returned, first>>
  /\ UNCHANGED <<videoVars, mainVars>>

\* lines 59-61: the lookup and the empty result list
BuildStep ==
  /\ pc = "build"
  /\ id_to_comment' = BuildLookup(comment_list)
  /\ nested' = <<>>
  /\ idx' = 1
  /\ pc' = "loop"
  /\ UNCHANGED <<comment_list, root_id, replies, call, returned, first>>
  /\ UNCHANGED <<videoVars, mainVars>>

\* ---- variants of the loop body (each one a slip the loop could contain) --
Keep == [nested |-> nested, replies |-> replies]
ToTop(cid) == [nested |-> Append(nested, id_to_comment[cid]), replies |-> replies]
ToParent(cid, parent) ==
  [nested |-> nested,
   replies |-> [replies EXCEPT ![id_to_comment[parent]] =
                  Append(@, id_to_comment[cid])]]

\* the reply branch appends nothing
PlaceDropReply(cid, parent) ==
  IF parent = root_id THEN ToTop(cid)
  ELSE IF parent \in DOMAIN id_to_comment THEN Keep
       ELSE ToTop(cid)

\* the sentinel branch appends nothing
PlaceSkipRoot(cid, parent) ==
  IF parent = root_id THEN Keep
  ELSE IF parent \in DOMAIN id_to_comment THEN ToParent(cid, parent)
       ELSE ToTop(cid)

\* the reply is appended to its own reply list instead of its parent's
PlaceUnderSelf(cid, parent) ==
  IF parent = root_id THEN ToTop(cid)
  ELSE IF parent \in DOMAIN id_to_comment THEN ToParent(cid, cid)
       ELSE ToTop(cid)

\* the orphan branch appends nothing
PlaceDropOrphan(cid, parent) ==
  IF parent = root_id THEN ToTop(cid)
  ELSE IF parent \in DOMAIN id_to_comment THEN ToParent(cid, parent)
       ELSE Keep

\* the reply is inserted at the head of the parent's reply list
PlacePrepend(cid, parent) ==
  IF parent = root_id THEN ToTop(cid)
  ELSE IF parent \in DOMAIN id_to_comment
       THEN [nested |-> nested,
             replies |-> [replies EXCEPT ![id_to_comment[parent]] =
                            <<id_to_comment[cid]>> \o @]]
       ELSE ToTop(cid)

\* the reply is appended to its parent's list and to the top-level list
PlaceReplyAlsoTop(cid, parent) ==
  IF parent = root_id THEN ToTop(cid)
  ELSE IF parent \in DOMAIN id_to_comment
       THEN [nested |-> Append(nested, id_to_comment[cid]),
             replies |-> ToParent(cid, parent).replies]
       ELSE ToTop(cid)

\* the parent's reply list is replaced by the one reply
PlaceOverwriteReplies(cid, parent) ==
  IF parent = root_id THEN ToTop(cid)
  ELSE IF parent \in DOMAIN id_to_comment
       THEN [nested |-> nested,
             replies |-> [replies EXCEPT ![id_to_comment[parent]] =
                            <<id_to_comment[cid]>>]]
       ELSE ToTop(cid)

\* the reply is appended only if the parent's list does not hold it yet
PlaceReplyIfAbsent(cid, parent) ==
  IF parent = root_id THEN ToTop(cid)
  ELSE IF parent \in DOMAIN id_to_comment
       THEN IF \E p \in DOMAIN replies[id_to_comment[parent]] :
                 replies[id_to_comment[parent]][p] = id_to_comment[cid]
            THEN Keep
            ELSE ToParent(cid, parent)
       ELSE ToTop(cid)

\* a promoted orphan is put in front of the top-level list
PlaceOrphanInFront(cid, parent) ==
  IF parent = root_id THEN ToTop(cid)
  ELSE IF parent \in DOMAIN id_to_comment THEN ToParent(cid, parent)
       ELSE [nested |-> <<id_to_comment[cid]>> \o nested, replies |-> replies]

\* the lookup is consulted before the sentinel is tested
PlaceLookupFirst(cid, parent) ==
  IF parent \in DOMAIN id_to_comment THEN ToParent(cid, parent)
  ELSE ToTop(cid)

\* lines 64-77: the body of the loop for one record; the new value of nested
\* and of the reply lists
Place(cid, parent) ==
  IF parent = root_id
  THEN [nested |-> Append(nested, id_to_comment[cid]), replies |-> replies]
  ELSE IF parent \in DOMAIN id_to_comment
       THEN [nested |-> nested,
             replies |-> [replies EXCEPT ![id_to_comment[parent]] =
                            Append(@, id_to_comment[cid])]]
       ELSE [nested |-> Append(nested, id_to_comment[cid]), replies |-> replies]

\* lines 68-69: parent == root_id
PlaceRoot ==
  /\ pc = "loop"
  /\ idx <= Len(comment_list)
  /\ comment_list[idx].parent = root_id
  /\ nested' = Place(comment_list[idx].comment_id, comment_list[idx].parent).nested
  /\ replies' = Place(comment_list[idx].comment_id, comment_list[idx].parent).replies
  /\ idx' = idx + 1
  /\ UNCHANGED <<comment_list, root_id, pc, call, id_to_comment, returned, first>>
  /\ UNCHANGED <<videoVars, mainVars>>

\* the reply is placed under its top-level ancestor, found by walking up the
\* parent references: the walk of a record that is its own parent never ends
PlaceReplyClimb ==
  /\ pc = "loop"
  /\ idx <= Len(comment_list)
  /\ comment_list[idx].parent # root_id
  /\ comment_list[idx].parent \in DOMAIN id_to_comment
  /\ IF comment_list[idx].parent = comment_list[idx].comment_id
     THEN UNCHANGED <<nested, replies, idx>>
     ELSE /\ nested' = Place(comment_list[idx].comment_id, comment_list[idx].parent).nested
          /\ replies' = Place(comment_list[idx].comment_id, comment_list[idx].parent).replies
          /\ idx' = idx + 1
  /\ UNCHANGED <<comment_list, root_id, pc, call, id_to_comment, returned, first>>
  /\ UNCHANGED <<videoVars, mainVars>>

\* lines 72-74: parent is a key of the lookup
PlaceReply ==
  /\ pc = "loop"
  /\ idx <= Len(comment_list)
  /\ comment_list[idx].parent # root_id
  /\ comment_list[idx].parent \in DOMAIN id_to_comment
  /\ nested' = Place(comment_list[idx].comment_id, comment_list[idx].parent).nested
  /\ replies' = Place(comment_list[idx].comment_id, comment_list[idx].parent).replies
  /\ idx' = idx + 1
  /\ UNCHANGED <<comment_list, root_id, pc, call, id_to_comment, returned, first>>
  /\ UNCHANGED <<videoVars, mainVars>>

\* lines 75-77: orphaned reply
PlaceOrphan ==
  /\ pc = "loop"
  /\ idx <= Len(comment_list)
  /\ comment_list[idx].parent # root_id
  /\ comment_list[idx].parent \notin DOMAIN id_to_comment
  /\ nested' = Place(comment_list[idx].comment_id, comment_list[idx].parent).nested
  /\ replies' = Place(comment_list[idx].comment_id, comment_list[idx].parent).replies
  /\ idx' = idx + 1
  /\ UNCHANGED <<comment_list, root_id, pc, call, id_to_comment, returned, first>>
  /\ UNCHANGED <<videoVars, mainVars>>

\* line 79: return nested
Return ==
  /\ pc = "loop"
  /\ idx > Len(comment_list)
  /\ returned' = nested
  /\ pc' = "done"
  /\ UNCHANGED <<comment_list, root_id, replies, call, idx, id_to_comment,
                 nested, first>>
  /\ UNCHANGED <<videoVars, mainVars>>

\* A second call of nest_comments on the same Comment objects: the reply
\* lists are whatever the first call left in them.
CallAgain ==
  /\ pc = "done"
  /\ call = 1
  /\ first' = [nested |-> returned, replies |-> replies]
  /\ call' = 2
  /\ pc' = "build"
  /\ idx' = 0
  /\ id_to_comment' = NoLookup
  /\ nested' = <<>>
  /\ UNCHANGED <<comment_list, root_id, replies, returned>>
  /\ UNCHANGED <<videoVars, mainVars>>

\* A run of nest_comments on an equal batch of freshly built Comment objects
\* (main.py:396: comments_replies_list=[]), after the first run completed.
CallFresh ==
  /\ pc = "done"
  /\ call = 1
  /\ first' = [nested |-> returned, replies |-> replies]
  /\ replies' = EmptyReplies(comment_list)
  /\ call' = 3
  /\ pc' = "build"
  /\ idx' = 0
  /\ id_to_comment' = NoLookup
  /\ nested' = <<>>
  /\ UNCHANGED <<comment_list, root_id, returned>>
  /\ UNCHANGED <<videoVars, mainVars>>

Next ==
  \/ BuildStep
  \/ PlaceRoot
  \/ PlaceReply
  \/ PlaceOrphan
  \/ Return
  \/ CallAgain
  \/ CallFresh

Spec == Init /\ [][Next]_vars

\* One call of nest_comments, run to its end: the interpreter executes the
\* next statement as long as there is one.
NextCall ==
  \/ BuildStep
  \/ PlaceRoot
  \/ PlaceReply
  \/ PlaceOrphan
  \/ Return

SpecCall == Init /\ [][NextCall]_vars /\ WF_vars(NextCall)

\* ---- download_video_info: the threading of the raw comments -------------
RawItem == [id : Ids, parent : ParentVals]
RawBatches == UNION {[1..n -> RawItem] : n \in 0..MaxLen}

InSeq(seq, x) == \E p \in DOMAIN seq : seq[p] = x

\* insertion order of the dict: a key keeps the position of its first
\* insertion
RECURSIVE DictKeys(_, _)
DictKeys(items, n) ==
  IF n = 0 THEN <<>>
  ELSE LET ks == DictKeys(items, n - 1)
       IN IF InSeq(ks, items[n].id) THEN ks ELSE Append(ks, items[n].id)

\* the comment_data of the first item with an id is kept
FirstPassKeepsEarlier(items) ==
  [keys |-> DictKeys(items, Len(items)),
   src  |-> [cid \in {items[k].id : k \in DOMAIN items} |->
               SetMin({k \in DOMAIN items : items[k].id = cid})]]

\* first pass: all_comments[comment_id] = comment_data, a later item
\* replaces the comment_data of an earlier one with the same id
FirstPass(items) ==
  [keys |-> DictKeys(items, Len(items)),
   src  |-> [cid \in {items[k].id : k \in DOMAIN items} |->
               SetMax({k \in DOMAIN items : items[k].id = cid})]]

\* comment["parent"] of the comment_data stored under a key
ParentOfKey(items, dict, cid) == items[dict.src[cid]].parent

\* second pass: every comment whose parent is not "root" is appended to
\* parent_to_children[parent], in the order of all_comments.items()
SecondPass(items, dict) ==
  [par \in {ParentOfKey(items, dict, dict.keys[p]) : p \in DOMAIN dict.keys} \ {Root} |->
     SelectSeq(dict.keys, LAMBDA cid : ParentOfKey(items, dict, cid) = par)]

\* a copy of the comment_data stored under a key, with its reply list
CommentCopy(items, dict, cid, reps) ==
  [comment_id |-> cid,
   parent |-> ParentOfKey(items, dict, cid),
   src |-> dict.src[cid],
   comments_replies |-> reps]

ChildCopies(items, dict, children) ==
  [p \in DOMAIN children |-> CommentCopy(items, dict, children[p], <<>>)]

\* third pass: only the comments whose parent is "root" are appended to
\* formatted_data["comments"], each with copies of its direct children
RECURSIVE ThirdPass(_, _, _, _)
ThirdPass(items, dict, p2c, n) ==
  IF n = 0 THEN <<>>
  ELSE LET rest == ThirdPass(items, dict, p2c, n - 1)
           cid == dict.keys[n]
       IN IF ParentOfKey(items, dict, cid) = Root
          THEN Append(rest,
                 CommentCopy(items, dict, cid,
                   IF cid \in DOMAIN p2c
                   THEN ChildCopies(items, dict, p2c[cid])
                   ELSE <<>>))
          ELSE rest

InitVideo ==
  /\ video_comments \in RawBatches
  /\ vpc = "first"
  /\ all_comments = NoComments
  /\ parent_to_children = NoChildren
  /\ formatted_comments = <<>>
  /\ youtube = NoObject
  /\ total_comments_scraped = 0
  /\ comment_list = <<>>
  /\ root_id = Root
  /\ replies = EmptyReplies(<<>>)
  /\ pc = "idle"
  /\ call = 1
  /\ idx = 0
  /\ id_to_comment = NoLookup
  /\ nested = <<>>
  /\ returned = <<>>
  /\ first = [nested |-> <<>>, replies |-> EmptyReplies(<<>>)]
  /\ MainIdle

CollectComments ==
  /\ vpc = "first"
  /\ all_comments' = FirstPass(video_comments)
  /\ vpc' = "second"
  /\ UNCHANGED <<video_comments, parent_to_children, formatted_comments, youtube,
                 total_comments_scraped>>
  /\ UNCHANGED <<nestVars, mainVars>>

MapChildren ==
  /\ vpc = "second"
  /\ parent_to_children' = SecondPass(video_comments, all_comments)
  /\ vpc' = "third"
  /\ UNCHANGED <<video_comments, all_comments, formatted_comments, youtube,
                 total_comments_scraped>>
  /\ UNCHANGED <<nestVars, mainVars>>

BuildHierarchy ==
  /\ vpc = "third"
  /\ formatted_comments' =
       ThirdPass(video_comments, all_comments, parent_to_children,
                 Len(all_comments.keys))
  /\ vpc' = "done"
  /\ UNCHANGED <<video_comments, all_comments, parent_to_children, youtube,
                 total_comments_scraped>>
  /\ UNCHANGED <<nestVars, mainVars>>

\* only the comments whose parent is "root" are counted
CommentCountTopLevel(items) ==
  Cardinality({k \in DOMAIN items : items[k].parent = Root})

\* line 151: comment_count_scraped = len(video_info.get("comments", []))
CommentCountScraped(items) == Len(items)

\* lines 147-154: the counts are added to formatted_data
AddCounts ==
  /\ vpc = "done"
  /\ total_comments_scraped' = CommentCountScraped(video_comments)
  /\ vpc' = "counted"
  /\ UNCHANGED <<video_comments, all_comments, parent_to_children, formatted_comments,
                 youtube>>
  /\ UNCHANGED <<nestVars, mainVars>>

NextVideo ==
  \/ CollectComments
  \/ MapChildren
  \/ BuildHierarchy
  \/ AddCounts

SpecVideo == InitVideo /\ [][NextVideo]_vars

\* ---- main.py: YouTube.download_video_info builds the Youtube object -------
\* fields of the dataclasses (youtube_class.py); the ones without a default
\* are required
AuthorFields ==
  {"author_id", "name", "username", "url", "profile_image_url", "profile_image_path"}
CommentFields ==
  {"comment_id", "url", "parent", "reply_to", "user_pro_pic", "comment_time",
   "user_name", "user_profile_url", "comment_text", "author", "reactions",
   "total_views", "total_replies", "total_reposts", "comments_replies_list"}
YoutubeRequired ==
  {"post_id", "source", "post_url", "post_title", "posted_at", "post_text",
   "author", "comments", "reactions"}
YoutubeFields ==
  YoutubeRequired \cup
  {"featured_images", "featured_image_path", "total_comments",
   "total_comments_scraped", "percent_comments", "total_shares", "total_views",
   "checksum"}

\* keywords of the three constructor calls (main.py)
AuthorKeywords ==
  {"author_id", "fullname", "username", "profile_url", "profile_image_url",
   "profile_image_path"}
CommentKeywords ==
  {"comment_id", "url", "parent", "user_pro_pic", "comment_time", "user_name",
   "user_profile_url", "comment_text", "author", "reactions", "total_views",
   "total_replies", "total_reposts", "comments_replies_list"}
YoutubeKeywords ==
  {"post_id", "source", "post_url", "posted_at", "post_text", "author",
   "comments", "reactions", "featured_image", "total_comments",
   "total_comments_scraped", "percent_comments", "total_shares", "total_views",
   "checksum"}

\* the generated __init__ of a dataclass raises TypeError for an unknown
\* keyword and for a missing required field
Accepts(fields, required, keywords) ==
  /\ keywords \subseteq fields
  /\ required \subseteq keywords

\* the comprehension of lines 365-399: one Comment per raw comment, in the
\* order of video_info["comments"], each with comments_replies_list=[]
YoutubeComments(items) ==
  [k \in DOMAIN items |->
     [comment_id |-> items[k].id, parent |-> items[k].parent, src |-> k,
      comments_replies_list |-> <<>>]]

ConstructionSucceeds(items) ==
  /\ Accepts(AuthorFields, AuthorFields, AuthorKeywords)
  /\ items # <<>> => Accepts(CommentFields, CommentFields, CommentKeywords)
  /\ Accepts(YoutubeFields, YoutubeRequired, YoutubeKeywords)

\* lines 351-418: youtube = Youtube(...); return youtube
ConstructYoutube ==
  /\ vpc = "done"
  /\ IF ConstructionSucceeds(video_comments)
     THEN /\ youtube' = [made |-> TRUE, comments |-> YoutubeComments(video_comments)]
          /\ vpc' = "returned"
     ELSE /\ youtube' = NoObject
          /\ vpc' = "raised"
  /\ UNCHANGED <<video_comments, all_comments, parent_to_children, formatted_comments,
                 total_comments_scraped>>
  /\ UNCHANGED <<nestVars, mainVars>>

NextMainVideo ==
  \/ CollectComments
  \/ MapChildren
  \/ BuildHierarchy
  \/ ConstructYoutube

SpecMainVideo == InitVideo /\ [][NextMainVideo]_vars

\* ---- main.py: main() ------------------------------------------------------
Items == <<"playlist", "channel", "video">>
EndOfMain == Len(Items) + 1

\* get_all_playlist_video_details and get_all_channel_video_details return a
\* YoutubePlaylist; download_video_info returns None when the info file is
\* missing (lines 172-174) and otherwise raises (see ConstructYoutube)
Returns(item) == IF item = "video" THEN "none" ELSE "object"

\* print(f"... Error: {e}"): the item and the statement that raised e
Report(item, stage) == [item |-> item, at |-> stage]

\* control leaves main()
AfterExceptPropagates(i) == 0

\* except Exception as e: print(...), then the statement after the try
AfterExcept(i) == i + 1

InitMain ==
  /\ mpc = 1
  /\ mstage = "fetch"
  /\ result = "none"
  /\ attempted = <<>>
  /\ reported = <<>>
  /\ opened = {}
  /\ written = {}
  /\ comment_list = <<>>
  /\ root_id = Root
  /\ replies = EmptyReplies(<<>>)
  /\ pc = "idle"
  /\ call = 1
  /\ idx = 0
  /\ id_to_comment = NoLookup
  /\ nested = <<>>
  /\ returned = <<>>
  /\ first = [nested |-> <<>>, replies |-> EmptyReplies(<<>>)]
  /\ video_comments = <<>>
  /\ vpc = "idle"
  /\ all_comments = NoComments
  /\ parent_to_children = NoChildren
  /\ formatted_comments = <<>>
  /\ youtube = NoObject
  /\ total_comments_scraped = 0

\* lines 523, 532, 541: the call of the searcher returns
FetchReturns ==
  /\ mpc \in DOMAIN Items
  /\ mstage = "fetch"
  /\ attempted' = Append(attempted, Items[mpc])
  /\ result' = Returns(Items[mpc])
  /\ mstage' = "open"
  /\ UNCHANGED <<mpc, reported, opened, written>>
  /\ UNCHANGED <<nestVars, videoVars>>

\* lines 523, 532, 541: the call of the searcher raises an Exception
FetchRaises ==
  /\ mpc \in DOMAIN Items
  /\ mstage = "fetch"
  /\ attempted' = Append(attempted, Items[mpc])
  /\ reported' = Append(reported, Report(Items[mpc], mstage))
  /\ mpc' = AfterExcept(mpc)
  /\ mstage' = "fetch"
  /\ result' = "none"
  /\ UNCHANGED <<opened, written>>
  /\ UNCHANGED <<nestVars, videoVars>>

\* lines 524, 533, 542: open(..., "w") succeeds
OpenReturns ==
  /\ mpc \in DOMAIN Items
  /\ mstage = "open"
  /\ opened' = opened \cup {Items[mpc]}
  /\ mstage' = "write"
  /\ UNCHANGED <<mpc, result, attempted, reported, written>>
  /\ UNCHANGED <<nestVars, videoVars>>

\* lines 524, 533, 542: open(..., "w") raises (no post_data directory)
OpenRaises ==
  /\ mpc \in DOMAIN Items
  /\ mstage = "open"
  /\ reported' = Append(reported, Report(Items[mpc], mstage))
  /\ mpc' = AfterExcept(mpc)
  /\ mstage' = "fetch"
  /\ result' = "none"
  /\ UNCHANGED <<attempted, opened, written>>
  /\ UNCHANGED <<nestVars, videoVars>>

\* lines 526, 535, 544: the result is encoded and written
WriteReturns ==
  /\ mpc \in DOMAIN Items
  /\ mstage = "write"
  /\ result = "object"
  /\ written' = written \cup {Items[mpc]}
  /\ mpc' = mpc + 1
  /\ mstage' = "fetch"
  /\ result' = "none"
  /\ UNCHANGED <<attempted, reported, opened>>
  /\ UNCHANGED <<nestVars, videoVars>>

\* lines 526, 535, 544: encoding or writing raises; None has no to_json
WriteRaises ==
  /\ mpc \in DOMAIN Items
  /\ mstage = "write"
  /\ reported' = Append(reported, Report(Items[mpc], mstage))
  /\ mpc' = AfterExcept(mpc)
  /\ mstage' = "fetch"
  /\ result' = "none"
  /\ UNCHANGED <<attempted, opened, written>>
  /\ UNCHANGED <<nestVars, videoVars>>

NextMain ==
  \/ FetchReturns
  \/ FetchRaises
  \/ OpenReturns
  \/ OpenRaises
  \/ WriteReturns
  \/ WriteRaises

SpecMain == InitMain /\ [][NextMain]_vars

\* ---- vocabulary of the properties --------------------------------------
Records == DOMAIN comment_list
Count(seq, x) == Cardinality({p \in DOMAIN seq : seq[p] = x})
InTop(r) == Count(returned, r) > 0
InRepliesOf(q, r) == Count(replies[q], r) > 0
InSomeReplies(r) == \E q \in Records : InRepliesOf(q, r)

RECURSIVE ReplyCount(_, _)
ReplyCount(r, n) ==
  IF n = 0 THEN 0 ELSE Count(replies[n], r) + ReplyCount(r, n - 1)

\* number of places of the output (top level or a reply list) that hold r
Placed(r) == Count(returned, r) + ReplyCount(r, Len(comment_list))

RECURSIVE TotalPlaced(_)
TotalPlaced(n) == IF n = 0 THEN 0 ELSE Placed(n) + TotalPlaced(n - 1)

UniqueIds ==
  \A j, k \in Records :
    comment_list[j].comment_id = comment_list[k].comment_id => j = k
IsTopParent(r) == comment_list[r].parent = root_id
HasParentInBatch(r) ==
  /\ comment_list[r].parent # root_id
  /\ comment_list[r].parent \in IdsOf(comment_list)
IsOrphan(r) ==
  /\ comment_list[r].parent # root_id
  /\ comment_list[r].parent \notin IdsOf(comment_list)
ParentsClosed == \A r \in Records : IsTopParent(r) \/ HasParentInBatch(r)

FirstDone == pc = "done" /\ call = 1
SecondDone == pc = "done" /\ call = 2

\* C1: with unique ids, empty reply lists and every parent the sentinel or
\* an id of the batch, the top-level list and the reply lists together hold
\* every record of the batch exactly once.
C1_Partition ==
  (FirstDone /\ UniqueIds /\ ParentsClosed)
    => \A r \in Records : Placed(r) = 1

C1_Witness ==
  /\ FirstDone /\ UniqueIds /\ ParentsClosed
  /\ \E r, q \in Records : r # q /\ InTop(q) /\ InRepliesOf(q, r)

\* C2 as stated: every record whose parent is the sentinel is in the
\* top-level list and in no reply list.
C2_Original ==
  FirstDone =>
    \A r \in Records : IsTopParent(r) => (InTop(r) /\ ~InSomeReplies(r))

\* C2 amended: in a batch with unique ids, every record whose parent is the
\* sentinel is in the top-level list and in no reply list.
C2_TopLevel ==
  (FirstDone /\ UniqueIds) =>
    \A r \in Records : IsTopParent(r) => (InTop(r) /\ ~InSomeReplies(r))

C2_Witness ==
  /\ FirstDone /\ UniqueIds
  /\ \E r, q \in Records : r # q /\ IsTopParent(r) /\ InTop(r) /\ InSomeReplies(q)

\* r is exactly once in the reply list of a record with id p, in no other
\* reply list, and not at top level
NestedUnderParent(r) ==
  /\ \E q \in Records :
       /\ comment_list[q].comment_id = comment_list[r].parent
       /\ Count(replies[q], r) = 1
       /\ \A o \in Records \ {q} : ~InRepliesOf(o, r)
  /\ ~InTop(r)

\* C3 as stated: every record whose parent is not the sentinel and is an id
\* of the batch is exactly once in that parent's reply list and nowhere else.
C3_Original ==
  FirstDone => \A r \in Records : HasParentInBatch(r) => NestedUnderParent(r)

\* C3 amended: the same, in a batch with unique ids.
C3_UnderParent ==
  (FirstDone /\ UniqueIds) =>
    \A r \in Records : HasParentInBatch(r) => NestedUnderParent(r)

\* a reply to a reply sits under its immediate parent
C3_Witness ==
  /\ FirstDone /\ UniqueIds
  /\ \E r, q, t \in Records :
       /\ r # q /\ q # t /\ r # t
       /\ InTop(t) /\ InRepliesOf(t, q) /\ InRepliesOf(q, r)
       /\ HasParentInBatch(r)

\* every record of the batch was placed: the loop ran to its end and made
\* one placement per record
AllThreaded ==
  /\ idx = Len(comment_list) + 1
  /\ TotalPlaced(Len(comment_list)) = Len(comment_list)

\* C4 as stated: an orphan is in the top-level list and the rest of the
\* batch is still threaded.
C4_Original ==
  FirstDone =>
    \A r \in Records : IsOrphan(r) => (InTop(r) /\ AllThreaded)

\* C4 amended: the same, in a batch with unique ids.
C4_OrphanPromoted ==
  (FirstDone /\ UniqueIds) =>
    \A r \in Records :
      IsOrphan(r) =>
        /\ InTop(r) /\ AllThreaded
        /\ \A o \in Records : Placed(o) = 1

C4_Witness ==
  /\ FirstDone /\ UniqueIds
  /\ \E r, q, t \in Records :
       /\ r < q /\ q # t /\ r # t
       /\ IsOrphan(r) /\ InTop(r)
       /\ InTop(t) /\ InRepliesOf(t, q)

Positions(seq, x) == {p \in DOMAIN seq : seq[p] = x}

\* j and k are both in the list, every occurrence of j before every one of k
OrderedIn(seq, j, k) ==
  /\ Positions(seq, j) # {}
  /\ Positions(seq, k) # {}
  /\ \A a \in Positions(seq, j), b \in Positions(seq, k) : a < b

SameParentPair(j, k) ==
  /\ j < k
  /\ HasParentInBatch(j)
  /\ comment_list[j].parent = comment_list[k].parent

\* C6 as stated: two records with the same parent are in that parent's
\* reply list in their input order, wherever the parent is in the input.
C6_Original ==
  FirstDone =>
    \A j, k \in Records :
      SameParentPair(j, k) =>
        \E q \in Records :
          /\ comment_list[q].comment_id = comment_list[j].parent
          /\ OrderedIn(replies[q], j, k)

\* C6 amended: the same, in a batch with unique ids.
C6_OrderPreserved ==
  (FirstDone /\ UniqueIds) =>
    \A j, k \in Records :
      SameParentPair(j, k) =>
        \E q \in Records :
          /\ comment_list[q].comment_id = comment_list[j].parent
          /\ OrderedIn(replies[q], j, k)

\* the parent comes after its two children in the input
C6_Witness ==
  /\ FirstDone /\ UniqueIds
  /\ \E j, k, q \in Records :
       /\ SameParentPair(j, k) /\ k < q
       /\ comment_list[q].comment_id = comment_list[j].parent
       /\ replies[q] = <<j, k>>

DuplicateTopPair(j, k) ==
  /\ j < k
  /\ comment_list[j].comment_id = comment_list[k].comment_id
  /\ IsTopParent(j) /\ IsTopParent(k)

EntriesFor(cid) ==
  Cardinality({p \in DOMAIN returned : comment_list[returned[p]].comment_id = cid})

\* records with this id that the loop places at top level
TopPlacementsOf(cid) ==
  Cardinality({r \in Occurrences(comment_list, cid) : IsTopParent(r) \/ IsOrphan(r)})

\* C7 as stated: with two records of the same id, both with the sentinel as
\* parent, the lookup keeps the later record and the top-level list holds one
\* entry for that id.
C7_Original ==
  FirstDone =>
    \A j, k \in Records :
      DuplicateTopPair(j, k) =>
        /\ id_to_comment[comment_list[j].comment_id] # j
        /\ EntriesFor(comment_list[j].comment_id) = 1

\* C7 amended: the lookup keeps only the last record with that id, and the
\* top-level list holds one entry per input record with that id that has the
\* sentinel or an orphan parent (so at least two), each of them that last
\* record; the call completes.
C7_DuplicateIds ==
  FirstDone =>
    \A j, k \in Records :
      DuplicateTopPair(j, k) =>
        LET cid == comment_list[j].comment_id IN
          /\ id_to_comment[cid] = SetMax(Occurrences(comment_list, cid))
          /\ id_to_comment[cid] >= k
          /\ EntriesFor(cid) = TopPlacementsOf(cid)
          /\ EntriesFor(cid) >= 2
          /\ Count(returned, id_to_comment[cid]) = EntriesFor(cid)
          /\ ~InTop(j)

C7_Witness ==
  /\ FirstDone
  /\ Len(comment_list) = 2
  /\ DuplicateTopPair(1, 2)
  /\ returned = <<2, 2>>

\* C8 as stated: no record is both in the top-level list and in a reply list.
C8_Original ==
  FirstDone => \A r \in Records : ~(InTop(r) /\ InSomeReplies(r))

\* C8 amended: the same, in a batch with unique ids.
C8_Disjoint ==
  (FirstDone /\ UniqueIds) =>
    \A r \in Records : ~(InTop(r) /\ InSomeReplies(r))

C8_Witness ==
  /\ FirstDone /\ UniqueIds
  /\ \E r, q \in Records : InTop(r) /\ InSomeReplies(q)
  /\ \E r \in Records : IsOrphan(r)

\* records reachable from the returned list along reply lists
RECURSIVE ReachFrom(_, _)
ReachFrom(S, n) ==
  IF n = 0 THEN S
  ELSE ReachFrom(S \cup UNION {{replies[q][p] : p \in DOMAIN replies[q]} : q \in S},
                 n - 1)

Reachable ==
  ReachFrom({returned[p] : p \in DOMAIN returned}, Len(comment_list))

\* following parent references from r ends at the sentinel or at an id that
\* is not in the batch
RECURSIVE Grounded(_, _)
Grounded(r, n) ==
  \/ IsTopParent(r)
  \/ IsOrphan(r)
  \/ /\ n > 0
     /\ \E q \in Records :
          /\ comment_list[q].comment_id = comment_list[r].parent
          /\ Grounded(q, n - 1)

NoParentCycle == \A r \in Records : Grounded(r, Len(comment_list))

\* C9 as stated: with unique ids, every record is reachable from the
\* returned list along reply lists.
C9_Original ==
  (FirstDone /\ UniqueIds) => \A r \in Records : r \in Reachable

\* C9 amended: with unique ids and no cycle of parent references, every
\* record is reachable from the returned list along reply lists.
C9_AllReachable ==
  (FirstDone /\ UniqueIds /\ NoParentCycle) =>
    \A r \in Records : r \in Reachable

C9_Witness ==
  /\ FirstDone /\ UniqueIds /\ NoParentCycle
  /\ \E r, q, t \in Records :
       /\ r # q /\ q # t /\ r # t
       /\ InTop(t) /\ InRepliesOf(t, q) /\ InRepliesOf(q, r)
  /\ Reachable = Records

\* C10 as stated: a second call on the same records returns the same
\* top-level list and leaves every reply list as the first call left it.
C10_Original ==
  SecondDone => (returned = first.nested /\ replies = first.replies)

\* C10 amended: a second call on the same records returns the same
\* top-level list, and every reply list is then the list the first call
\* left followed by a second copy of it.
C10_SecondCall ==
  SecondDone =>
    /\ returned = first.nested
    /\ \A r \in Records : replies[r] = first.replies[r] \o first.replies[r]

C10_Witness ==
  /\ SecondDone
  /\ \E r \in Records : Len(first.replies[r]) = 2 /\ Len(replies[r]) = 4
  /\ returned # <<>>

\* ---- download_video_info -------------------------------------------------
VideoDone == vpc = "done"
VideoIds == {video_comments[k].id : k \in DOMAIN video_comments}
IsVideoOrphan(k) ==
  /\ video_comments[k].parent # Root
  /\ video_comments[k].parent \notin VideoIds
TopLevelIds == {formatted_comments[p].comment_id : p \in DOMAIN formatted_comments}
ReplyIds ==
  UNION {{formatted_comments[p].comments_replies[c].comment_id :
            c \in DOMAIN formatted_comments[p].comments_replies} :
         p \in DOMAIN formatted_comments}

\* C5: in download_video_info a comment whose parent is neither "root" nor an
\* id of the batch is in the top-level comments of the formatted output, and
\* no comment of the batch is missing from the output.
C5_VideoOrphanPromoted ==
  VideoDone =>
    /\ \A k \in DOMAIN video_comments :
         IsVideoOrphan(k) => video_comments[k].id \in TopLevelIds
    /\ VideoIds \subseteq (TopLevelIds \cup ReplyIds)

\* ---- nest_comments, continued --------------------------------------------
FreshDone == pc = "done" /\ call = 3

NoKeyError ==
  (pc = "loop" /\ idx <= Len(comment_list)) =>
    /\ comment_list[idx].comment_id \in DOMAIN id_to_comment
    /\ id_to_comment[comment_list[idx].comment_id] \in Records
    /\ \A cid \in DOMAIN id_to_comment : id_to_comment[cid] \in DOMAIN replies
    /\ ENABLED (PlaceRoot \/ PlaceReply \/ PlaceOrphan)

IsSelfParent(r) ==
  /\ comment_list[r].parent = comment_list[r].comment_id
  /\ comment_list[r].parent # root_id

InTwoCycle(r) ==
  \E q \in Records :
    /\ q # r
    /\ comment_list[r].parent = comment_list[q].comment_id
    /\ comment_list[q].parent = comment_list[r].comment_id
    /\ comment_list[r].parent # root_id /\ comment_list[q].parent # root_id

\* C12: nest_comments raises no error, whatever the parent references are
\* (orphans, duplicate ids, a record that is its own parent, a cycle): no step
\* of the loop can fail, the loop is never stuck, and the call returns a list
\* of records of the batch, the empty list for the empty batch.
C12_NoError ==
  /\ NoKeyError
  /\ pc \in {"build", "loop", "done"}
  /\ (pc = "loop" /\ idx > Len(comment_list)) => ENABLED Return
  /\ pc = "done" =>
       /\ \A p \in DOMAIN returned : returned[p] \in Records
       /\ (comment_list = <<>> => returned = <<>>)

\* a completed call on a batch with a duplicate id, an orphan and a record
\* that is its own parent
C12_Witness ==
  /\ FirstDone
  /\ ~UniqueIds
  /\ \E r \in Records : IsOrphan(r)
  /\ \E r \in Records : IsSelfParent(r)

\* C13 as stated: every record that is inside a reply list has an empty reply
\* list itself.
C13_Original ==
  FirstDone => \A r \in Records : InSomeReplies(r) => replies[r] = <<>>

\* no record that has its parent in the batch is named as parent by a record
NoReplyToReply ==
  \A r, s \in Records :
    ~ /\ HasParentInBatch(r)
      /\ comment_list[s].parent = comment_list[r].comment_id
      /\ comment_list[s].parent # root_id

\* C13 amended: when no record of the batch replies to a record that is
\* itself a reply, every record inside a reply list has an empty reply list;
\* a reply to a reply is nested under its immediate parent, one tier deeper.
C13_TwoTiers ==
  (FirstDone /\ NoReplyToReply) =>
    \A r \in Records : InSomeReplies(r) => replies[r] = <<>>

C13_Witness ==
  /\ FirstDone /\ NoReplyToReply
  /\ \E q \in Records : InTop(q) /\ Len(replies[q]) = 2
  /\ \A r \in Records : InSomeReplies(r) => replies[r] = <<>>

\* some record of the batch names r's id as its parent
IsNamedParent(r) ==
  \E s \in Records : comment_list[s].parent = comment_list[r].comment_id

\* C14: a step of nest_comments changes nothing except the reply list of a
\* record that is the parent of some record of the batch: the input list (its
\* length, its order, the id and parent fields of its records) and the
\* sentinel stay as they are, and so does the reply list of every record that
\* is nobody's parent.
C14_Frame ==
  [][ (pc # "done") =>
        /\ comment_list' = comment_list
        /\ root_id' = root_id
        /\ DOMAIN replies' = DOMAIN replies
        /\ \A r \in Records : ~IsNamedParent(r) => replies'[r] = replies[r] ]_vars

C14_Witness ==
  /\ FirstDone
  /\ \E q \in Records : IsNamedParent(q) /\ Len(replies[q]) = 2
  /\ \E r \in Records : ~IsNamedParent(r) /\ InSomeReplies(r) /\ replies[r] = <<>>

\* ---- main.py: the Youtube object -----------------------------------------
VideoEnded == vpc \in {"returned", "raised"}

\* C15: download_video_info of main.py returns a Youtube object whose
\* comments are the top-level comments only, each with its replies nested in
\* comments_replies_list; a comment whose parent is a comment of the batch is
\* not an element of comments.
C15_YoutubeCommentsNested ==
  VideoEnded =>
    /\ vpc = "returned"
    /\ youtube.made
    /\ \A p \in DOMAIN youtube.comments :
         youtube.comments[p].parent \notin VideoIds
    /\ \A k \in DOMAIN video_comments :
         (video_comments[k].parent # Root /\ video_comments[k].parent \in VideoIds) =>
           \E p \in DOMAIN youtube.comments :
             \E c \in DOMAIN youtube.comments[p].comments_replies_list :
               youtube.comments[p].comments_replies_list[c].comment_id =
                 video_comments[k].id

\* ---- main() ----------------------------------------------------------------
Prefix(seq, n) == SubSeq(seq, 1, n)

\* the items of a sequence of items that are not in a set, in order
Without(seq, S) == SelectSeq(seq, LAMBDA item : item \notin S)

ReportedItems == [p \in DOMAIN reported |-> reported[p].item]

\* C16: main() attempts playlist, channel and video in that order; an item
\* that raises is reported and only that item is skipped; main() reaches its
\* end whichever items fail.
C16_ItemsIsolated ==
  /\ mpc \in 1..EndOfMain
  /\ attempted = Prefix(Items, IF mstage = "fetch" THEN mpc - 1 ELSE mpc)
  /\ ReportedItems = Without(Prefix(Items, mpc - 1), written)
  /\ mpc # EndOfMain => ENABLED NextMain
  /\ mpc = EndOfMain =>
       /\ attempted = Items
       /\ \A k \in DOMAIN Items :
            Items[k] \in written \/ \E p \in DOMAIN reported : reported[p].item = Items[k]

\* main() ended after the playlist and the video failed and the channel was
\* written
C16_Witness ==
  /\ mpc = EndOfMain
  /\ ReportedItems = <<"playlist", "video">>
  /\ written = {"channel"}
  /\ attempted = Items

\* ---- nest_comments: the sentinel is the id of a record ---------------------
SentinelIsAnId == root_id \in IdsOf(comment_list)

SentinelFirst(r) ==
  /\ InTop(r)
  /\ \A q \in Records :
       comment_list[q].comment_id = root_id => ~InRepliesOf(q, r)

\* C17 as stated: when the sentinel is the id of a record of the batch, every
\* record whose parent is the sentinel is in the top-level list and not in
\* the reply list of the record that has that id.
C17_Original ==
  (FirstDone /\ SentinelIsAnId) =>
    \A r \in Records : IsTopParent(r) => SentinelFirst(r)

\* C17 amended: when the sentinel is the id of a record of the batch, nothing
\* is appended to the reply list of a record that has that id, and in a batch
\* with unique ids every record whose parent is the sentinel is in the
\* top-level list.
C17_SentinelFirst ==
  (FirstDone /\ SentinelIsAnId) =>
    /\ \A q \in Records : comment_list[q].comment_id = root_id => replies[q] = <<>>
    /\ UniqueIds => \A r \in Records : IsTopParent(r) => SentinelFirst(r)

C17_Witness ==
  /\ FirstDone /\ SentinelIsAnId /\ UniqueIds
  /\ \E r, q \in Records :
       /\ r # q
       /\ comment_list[q].comment_id = root_id
       /\ IsTopParent(r) /\ InTop(r)
       /\ replies[q] = <<>>

\* ---- nest_comments: termination ---------------------------------------------
RECURSIVE RepliesLen(_)
RepliesLen(n) == IF n = 0 THEN 0 ELSE Len(replies[n]) + RepliesLen(n - 1)
RECURSIVE RepliesLenNext(_)
RepliesLenNext(n) == IF n = 0 THEN 0 ELSE Len(replies'[n]) + RepliesLenNext(n - 1)

\* number of appends made so far
Appended == Len(nested) + RepliesLen(Len(comment_list))

\* C18: nest_comments terminates on every batch, cyclic parent references
\* included, after exactly one placement step per input record: every step of
\* the loop moves to the next record and makes one append, and the call
\* returns when the loop has passed the last record.
C18_Terminates ==
  /\ <>(pc = "done")
  /\ [](pc = "done" => (idx = Len(comment_list) + 1 /\ Appended = Len(comment_list)))
  /\ [][ (pc = "loop" /\ pc' = "loop") =>
           /\ idx' = idx + 1
           /\ Len(nested') + RepliesLenNext(Len(comment_list)) = Appended + 1 ]_vars

\* a completed call on a batch with a record that is its own parent and two
\* records that name each other as parent
C18_Witness ==
  /\ pc = "done"
  /\ \E r \in Records : IsSelfParent(r)
  /\ \E r \in Records : InTwoCycle(r)
  /\ Appended = Len(comment_list)

\* ---- nest_comments: the top-level list -----------------------------------------
RECURSIVE Positions1To(_)
Positions1To(n) == IF n = 0 THEN <<>> ELSE Append(Positions1To(n - 1), n)

\* the records whose parent is the sentinel or is no id of the batch, in
\* input order
TopSubsequence ==
  SelectSeq(Positions1To(Len(comment_list)),
            LAMBDA r : IsTopParent(r) \/ IsOrphan(r))

LastWithIdOf(r) == SetMax(Occurrences(comment_list, comment_list[r].comment_id))

\* C19 as stated: the returned list is exactly the subsequence of the input
\* made of the records whose parent is the sentinel or is no id of the batch,
\* in input order.
C19_Original == FirstDone => returned = TopSubsequence

\* C19 amended: the returned list is that subsequence, in input order, with
\* each record replaced by the last record of the batch that has its id; it
\* is the subsequence itself when the ids are unique.
C19_TopLevelOrder ==
  FirstDone =>
    /\ returned = [p \in DOMAIN TopSubsequence |-> LastWithIdOf(TopSubsequence[p])]
    /\ UniqueIds => returned = TopSubsequence

\* an orphan between two records with the sentinel as parent
C19_Witness ==
  /\ FirstDone /\ UniqueIds
  /\ returned = <<1, 2, 3>>
  /\ IsTopParent(1) /\ IsOrphan(2) /\ IsTopParent(3)

\* ---- download_video_info: duplicate ids ---------------------------------------
VideoOccurrences(cid) == {k \in DOMAIN video_comments : video_comments[k].id = cid}
FirstOccurrence(cid) == SetMin(VideoOccurrences(cid))
LastOccurrence(cid) == SetMax(VideoOccurrences(cid))

\* the lists of the formatted output: the top-level list and every reply list
OutputLists ==
  {formatted_comments} \cup
  {formatted_comments[p].comments_replies : p \in DOMAIN formatted_comments}

RECURSIVE EntriesWithId(_, _)
EntriesWithId(cid, n) ==
  IF n = 0 THEN 0
  ELSE (IF formatted_comments[n].comment_id = cid THEN 1 ELSE 0)
       + Cardinality({c \in DOMAIN formatted_comments[n].comments_replies :
                        formatted_comments[n].comments_replies[c].comment_id = cid})
       + EntriesWithId(cid, n - 1)

CarriesLaterOccurrence(e) ==
  /\ e.src = LastOccurrence(e.comment_id)
  /\ e.parent = video_comments[LastOccurrence(e.comment_id)].parent

OrderedByFirstOccurrence(list) ==
  \A a, b \in DOMAIN list :
    a < b => FirstOccurrence(list[a].comment_id) < FirstOccurrence(list[b].comment_id)

HasDuplicateId == \E cid \in VideoIds : Cardinality(VideoOccurrences(cid)) >= 2

\* C20: when raw comments share an id, the formatted output of
\* download_video_info holds at most one record for that id, with the fields
\* (the parent too) of the later occurrence, at the place the first occurrence
\* gives it; the fields of the earlier occurrence are nowhere in the output.
C20_VideoDuplicateIds ==
  (VideoDone /\ HasDuplicateId) =>
    /\ \A cid \in VideoIds :
         EntriesWithId(cid, Len(formatted_comments)) <= 1
    /\ \A list \in OutputLists :
         /\ \A p \in DOMAIN list : CarriesLaterOccurrence(list[p])
         /\ OrderedByFirstOccurrence(list)

\* [a, b, a'] with "root" parents gives [a', b]
C20_Witness ==
  /\ VideoDone
  /\ Len(video_comments) = 3
  /\ video_comments[1].id = video_comments[3].id
  /\ video_comments[2].id # video_comments[1].id
  /\ video_comments[1].parent # Root
  /\ video_comments[2].parent = Root /\ video_comments[3].parent = Root
  /\ Len(formatted_comments) = 2
  /\ formatted_comments[1].src = 3
  /\ formatted_comments[2].src = 2

\* ---- download_video_info: the counts ------------------------------------------
VideoCounted == vpc = "counted"

VideoUniqueIds ==
  \A j, k \in DOMAIN video_comments :
    video_comments[j].id = video_comments[k].id => j = k

\* every parent is "root" or the id of a comment whose parent is "root"
ParentsRootOrTopLevel ==
  \A k \in DOMAIN video_comments :
    \/ video_comments[k].parent = Root
    \/ \E q \in DOMAIN video_comments :
         /\ video_comments[q].id = video_comments[k].parent
         /\ video_comments[q].parent = Root

RECURSIVE OutputReplies(_)
OutputReplies(n) ==
  IF n = 0 THEN 0
  ELSE Len(formatted_comments[n].comments_replies) + OutputReplies(n - 1)

\* the comment records of the formatted output: the top-level entries and the
\* entries of their comments_replies lists
OutputRecords == Len(formatted_comments) + OutputReplies(Len(formatted_comments))

\* C21: in download_video_info, with unique ids and every parent "root" or the
\* id of a comment whose parent is "root", total_comments_scraped is the number
\* of comment records of the formatted output.
C21_ScrapedCount ==
  (VideoCounted /\ VideoUniqueIds /\ ParentsRootOrTopLevel) =>
    total_comments_scraped = OutputRecords

C21_Witness ==
  /\ VideoCounted /\ VideoUniqueIds /\ ParentsRootOrTopLevel
  /\ Len(formatted_comments) = 2
  /\ \E p \in DOMAIN formatted_comments : Len(formatted_comments[p].comments_replies) = 1
  /\ total_comments_scraped = 3

====
